---- MODULE Spec2Model ----
(***************************************************************************)
(* A model of whiplash's Collection (src/whiplash/collection.py): an LSH   *)
(* vector index over two key-value tables, the vector table and the bucket *)
(* table.  The storage adapter, the hashing and the similarity functions   *)
(* are separate modules of the repository; they are modelled here by the   *)
(* interface the specification gives them (sections 4.2, 4.3, 4.5).        *)
(***************************************************************************)
EXTENDS Integers, Sequences, FiniteSets, TLC

VARIABLES config, zero_norm, vector_table, bucket_table, last, pending

vars == <<config, zero_norm, vector_table, bucket_table, last, pending>>

(***************************************************************************)
(* Bounds of the model.                                                    *)
(***************************************************************************)
MaxK == 2
MaxBatch == 2
NumProcs == 2

(***************************************************************************)
(* Input domains.  Ids are strings, modelled as sequences of tokens so     *)
(* that the "meta#" prefix is a real concatenation.                        *)
(***************************************************************************)
Ids == {<<"a">>, <<"b">>}

AbsentId == <<"zz">>

\* <<1>> has the wrong length for an index with n_features = 2
StoredValues == {<<1, 0>>, <<1, 1>>, <<0, 0>>, <<1>>}

QueryValues == StoredValues \cup {<<-1, 1>>}

\* Vector(id, vector)
Vectors == [id : Ids, vector : StoredValues]

\* config.uniform_planes: plane id -> hyperplane matrix (rows of n_features)
NoPlanes == <<>>

\* bit_start = 1, bit_scale_factor = 1: plane 0 has one row, plane 1 two
PlanesA == (0 :> <<(<<1, 0>>)>>) @@ (1 :> <<(<<1, 0>>), (<<0, 1>>)>>)

\* bit_start = 1, bit_scale_factor = 0: both planes have one row
PlanesB == (0 :> <<(<<1, 0>>)>>) @@ (1 :> <<(<<0, 1>>)>>)

Configs == [n_features : {2}, uniform_planes : {NoPlanes, PlanesA, PlanesB}]

(***************************************************************************)
(* Errors.  The code raises ValueError for every precondition; the message *)
(* tells them apart.  The specification calls the first two                *)
(* ConfigurationError and the third NotFoundError.                         *)
(***************************************************************************)
NoError == "none"
PlanesNotCreated == "ValueError: Uniform planes must be created"
PlaneNotFound == "ValueError: Uniform plane with id not found"
VectorNotFound == "ValueError: Vector with id not found"
ShapeMismatch == "ValueError: shapes not aligned"
NumericError == "NumericError: zero norm"
MetadataKeyError == "KeyError: metadata"
\* Vector.from_dynamo of an item that has no "values"
RecordKeyError == "KeyError: values"
\* an error of the storage layer (timeout, throttling), propagated unchanged
StorageError == "StorageError"

ConfigurationError == {PlanesNotCreated, PlaneNotFound, ShapeMismatch}
NotFoundError == {VectorNotFound}

(***************************************************************************)
(* Sequence helpers.                                                       *)
(***************************************************************************)
Range(s) == {s[i] : i \in 1..Len(s)}

RECURSIVE SumTo(_, _)
SumTo(f, n) == IF n = 0 THEN 0 ELSE f[n] + SumTo(f, n - 1)

\* np.dot of two vectors of the same length
Dot(a, b) == SumTo([i \in 1..Len(a) |-> a[i] * b[i]], Len(a))

\* the sequences without repetition over a finite set, of length <= n
RECURSIVE SeqsNoDup(_, _)
SeqsNoDup(S, n) ==
    IF n = 0 THEN {<<>>}
    ELSE LET shorter == SeqsNoDup(S, n - 1)
             longer == {Append(s, x) : s \in shorter, x \in S}
         IN shorter \cup
            {t \in longer : \A i, j \in 1..Len(t) : t[i] = t[j] => i = j}

\* the orderings of a finite set
Orderings(S) == {s \in SeqsNoDup(S, Cardinality(S)) : Len(s) = Cardinality(S)}

(***************************************************************************)
(* Hashing (whiplash.hashing.vector_plane_hash, specification 4.2): one    *)
(* bit per row of the plane, 1 when the projection is positive.            *)
(***************************************************************************)
ShapeOK(vector, plane) == \A r \in 1..Len(plane) : Len(plane[r]) = Len(vector)

vector_plane_hash(vector, plane) ==
    [r \in 1..Len(plane) |-> IF Dot(plane[r], vector) > 0 THEN 1 ELSE 0]

\* Collection.hash_key: [err, key]
hash_key(cfg, vector, plane_id) ==
    IF DOMAIN cfg.uniform_planes = {}
    THEN [err |-> PlanesNotCreated, key |-> <<>>]
    ELSE IF plane_id \notin DOMAIN cfg.uniform_planes
    THEN [err |-> PlaneNotFound, key |-> <<>>]
    ELSE IF ~ShapeOK(vector, cfg.uniform_planes[plane_id])
    THEN [err |-> ShapeMismatch, key |-> <<>>]
    ELSE [err |-> NoError,
          key |-> vector_plane_hash(vector, cfg.uniform_planes[plane_id])]

\* self.config.uniform_planes.keys(), in the dictionary's order
PlaneKeys(cfg) ==
    LET n == Cardinality(DOMAIN cfg.uniform_planes)
    IN [i \in 1..n |-> i - 1]

(***************************************************************************)
(* Records.  Vector.to_dynamo / Vector.from_dynamo (whiplash.vector) map   *)
(* a Vector(id, vector) to the stored item {id, values} and back           *)
(* (specification 6, vector record layout).                                *)
(***************************************************************************)
to_dynamo(v) == [id |-> v.id, values |-> v.vector]

from_dynamo(item) == [id |-> item.id, vector |-> item.values]

IsVectorItem(item) == "values" \in DOMAIN item

(***************************************************************************)
(* The key-value store (whiplash.storage, specification 4.3).  A table is  *)
(* a function from the keys it holds to their items; the bucket table      *)
(* holds for each bucket key the set-valued column "ids".                  *)
(***************************************************************************)
EmptyTable == <<>>

\* put: upsert by id
Put(table, item) ==
    [k \in DOMAIN table \cup {item.id} |-> IF k = item.id THEN item ELSE table[k]]

\* put_batch: the items upserted in order
RECURSIVE PutBatch(_, _)
PutBatch(table, items) ==
    IF items = <<>> THEN table
    ELSE PutBatch(Put(table, Head(items)), Tail(items))

\* get: the item or nothing (the empty sequence stands for None)
Get(table, key) == IF key \in DOMAIN table THEN <<table[key]>> ELSE <<>>

\* get_bulk: the items of the keys that exist; missing keys are left out
RECURSIVE GetBulk(_, _)
GetBulk(table, keys) ==
    IF keys = <<>> THEN <<>>
    ELSE Get(table, Head(keys)) \o GetBulk(table, Tail(keys))

\* the "ids" column of a bucket; an absent bucket has none
BucketIds(buckets, key) == IF key \in DOMAIN buckets THEN buckets[key] ELSE {}

\* a mutant: the column is overwritten instead of merged
SetIds(buckets, key, ids) ==
    [k \in DOMAIN buckets \cup {key} |-> IF k = key THEN ids ELSE buckets[k]]

\* a mutant: "SET ids = if_not_exists(ids, :val)", no merge into a set
\* that exists
AddIfAbsent(buckets, key, ids) ==
    [k \in DOMAIN buckets \cup {key} |->
        IF k = key /\ key \notin DOMAIN buckets THEN ids ELSE buckets[k]]

\* a mutant: a write that is not idempotent, ids present are taken out
ToggleIds(buckets, key, ids) ==
    [k \in DOMAIN buckets \cup {key} |->
        IF k = key THEN (BucketIds(buckets, key) \ ids) \cup (ids \ BucketIds(buckets, key))
        ELSE buckets[k]]

\* UpdateExpression "ADD ids :val": the set union, atomic in the store
AddIds(buckets, key, ids) ==
    [k \in DOMAIN buckets \cup {key} |->
        IF k = key THEN BucketIds(buckets, key) \cup ids ELSE buckets[k]]

\* update_column(key, "ids", id): the store's union of one value into the set
UpdateColumn(buckets, key, id) == AddIds(buckets, key, {id})

(***************************************************************************)
(* Storage calls, as the handlers issue them.                              *)
(***************************************************************************)
CallPut(item) == [call |-> "put", key |-> <<>>, items |-> <<item>>, ids |-> {}]

CallPutBatch(items) == [call |-> "put_batch", key |-> <<>>, items |-> items, ids |-> {}]

CallUpdateColumn(key, id) ==
    [call |-> "update_column", key |-> key, items |-> <<>>, ids |-> {id}]

CallUpdateItem(key, ids) ==
    [call |-> "update_item", key |-> key, items |-> <<>>, ids |-> ids]

CallGet(key) == [call |-> "get", key |-> key, items |-> <<>>, ids |-> {}]

CallGetBulk(keys) == [call |-> "get_bulk", key |-> keys, items |-> <<>>, ids |-> {}]

CallGetBatch(keys) == [call |-> "get_batch", key |-> keys, items |-> <<>>, ids |-> {}]

WriteCalls == {"put", "put_batch", "update_column", "update_item"}

IsWrite(c) == c.call \in WriteCalls

IsUnion(c) == c.call \in {"update_column", "update_item"}

\* the two tables after one storage call
ApplyCall(tabs, c) ==
    CASE c.call = "put" -> [tabs EXCEPT !.vt = Put(tabs.vt, c.items[1])]
      [] c.call = "put_batch" -> [tabs EXCEPT !.vt = PutBatch(tabs.vt, c.items)]
      [] c.call = "update_column" ->
            [tabs EXCEPT !.bt = UpdateColumn(tabs.bt, c.key, CHOOSE i \in c.ids : TRUE)]
      [] c.call = "update_item" -> [tabs EXCEPT !.bt = AddIds(tabs.bt, c.key, c.ids)]
      [] OTHER -> tabs

RECURSIVE ApplyCalls(_, _)
ApplyCalls(tabs, calls) ==
    IF calls = <<>> THEN tabs
    ELSE ApplyCalls(ApplyCall(tabs, Head(calls)), Tail(calls))

(***************************************************************************)
(* Collection.insert: the storage calls it issues, in order, and how it    *)
(* ends.  The vector record is put before the first hash_key call.         *)
(***************************************************************************)
\* a mutant: one update per distinct bucket key, not one per plane
InsertBucketsDistinct(cfg, v, planes) ==
    LET keys == [i \in 1..Len(planes) |-> hash_key(cfg, v.vector, planes[i])]
        first == {i \in 1..Len(planes) :
                     \A j \in 1..(i - 1) : keys[j].key # keys[i].key}
        calls == [i \in 1..Len(planes) |->
                     IF i \in first THEN <<CallUpdateColumn(keys[i].key, v.id)>> ELSE <<>>]
        RECURSIVE Flat(_)
        Flat(i) == IF i = 0 THEN <<>> ELSE Flat(i - 1) \o calls[i]
    IN IF \E i \in 1..Len(planes) : keys[i].err # NoError
       THEN [err |-> ShapeMismatch, calls |-> <<>>]
       ELSE [err |-> NoError, calls |-> Flat(Len(planes))]

RECURSIVE InsertBuckets(_, _, _)
InsertBuckets(cfg, v, planes) ==
    IF planes = <<>> THEN [err |-> NoError, calls |-> <<>>]
    ELSE LET h == hash_key(cfg, v.vector, Head(planes))
         IN IF h.err # NoError THEN [err |-> h.err, calls |-> <<>>]
            ELSE LET rest == InsertBuckets(cfg, v, Tail(planes))
                 IN [err |-> rest.err,
                     calls |-> <<CallUpdateColumn(h.key, v.id)>> \o rest.calls]

\* a mutant: the planes are not checked before the record is written
insert_unchecked(cfg, v) ==
    LET b == InsertBuckets(cfg, v, PlaneKeys(cfg))
    IN [err |-> b.err, calls |-> <<CallPut(to_dynamo(v))>> \o b.calls]

\* a mutant: the record is put after the bucket updates
insert_put_last(cfg, v) ==
    IF DOMAIN cfg.uniform_planes = {}
    THEN [err |-> PlanesNotCreated, calls |-> <<>>]
    ELSE LET b == InsertBuckets(cfg, v, PlaneKeys(cfg))
         IN [err |-> b.err, calls |-> b.calls \o <<CallPut(to_dynamo(v))>>]

insert(cfg, v) ==
    IF DOMAIN cfg.uniform_planes = {}
    THEN [err |-> PlanesNotCreated, calls |-> <<>>]
    ELSE LET b == InsertBuckets(cfg, v, PlaneKeys(cfg))
         IN [err |-> b.err, calls |-> <<CallPut(to_dynamo(v))>> \o b.calls]

(***************************************************************************)
(* Collection.insert_batch: one put_batch, the grouping of the ids by      *)
(* bucket key (a dictionary, in first-insertion order), then one ADD per   *)
(* key of the dictionary.                                                  *)
(***************************************************************************)
\* the (vector, plane) pairs in the order of the two nested loops
BatchPairs(cfg, vectors) ==
    LET planes == PlaneKeys(cfg)
        np == Len(planes)
    IN [n \in 1..(Len(vectors) * np) |->
           [vec |-> vectors[((n - 1) \div np) + 1], plane |-> planes[((n - 1) % np) + 1]]]

\* a mutant: buckets[bucket_key] = {vec.id}, the last vector of a key wins
DictPut(dict, key, id) ==
    [k \in DOMAIN dict \cup {key} |-> IF k = key THEN {id} ELSE dict[k]]

\* buckets = defaultdict(set); buckets[bucket_key].add(vec.id)
DictAdd(dict, key, id) ==
    [k \in DOMAIN dict \cup {key} |->
        IF k = key THEN (IF key \in DOMAIN dict THEN dict[key] ELSE {}) \cup {id}
        ELSE dict[k]]

\* the grouping loop: [err, keys (in insertion order), ids]
RECURSIVE GroupBuckets(_, _, _)
GroupBuckets(cfg, pairs, acc) ==
    IF pairs = <<>> THEN acc
    ELSE LET p == Head(pairs)
             h == hash_key(cfg, p.vec.vector, p.plane)
         IN IF h.err # NoError THEN [acc EXCEPT !.err = h.err]
            ELSE GroupBuckets(cfg, Tail(pairs),
                     [err |-> NoError,
                      keys |-> IF h.key \in Range(acc.keys) THEN acc.keys
                               ELSE Append(acc.keys, h.key),
                      ids |-> DictAdd(acc.ids, h.key, p.vec.id)])

\* a mutant: one update per (vector, plane) pair, ungrouped
BatchUpdatesPerVector(cfg, vectors, groups) ==
    LET pairs == BatchPairs(cfg, vectors)
    IN [n \in 1..Len(pairs) |->
           CallUpdateItem(hash_key(cfg, pairs[n].vec.vector, pairs[n].plane).key,
                          {pairs[n].vec.id})]

\* for idx, (bucket, ids) in enumerate(dict(buckets).items()): update_item
BatchUpdates(cfg, vectors, groups) ==
    [n \in 1..Len(groups.keys) |->
        CallUpdateItem(groups.keys[n], groups.ids[groups.keys[n]])]

insert_batch(cfg, vectors) ==
    IF DOMAIN cfg.uniform_planes = {}
    THEN [err |-> PlanesNotCreated, calls |-> <<>>]
    ELSE LET put == CallPutBatch([n \in 1..Len(vectors) |-> to_dynamo(vectors[n])])
             groups == GroupBuckets(cfg, BatchPairs(cfg, vectors),
                                    [err |-> NoError, keys |-> <<>>, ids |-> EmptyTable])
         IN IF groups.err # NoError
            THEN [err |-> groups.err, calls |-> <<put>>]
            ELSE [err |-> NoError,
                  calls |-> <<put>> \o BatchUpdates(cfg, vectors, groups)]

\* insert_metadata: items = [{**v, "id": f"meta#{k}"}], one put_batch
MetaKey(id) == <<"meta#">> \o id

(***************************************************************************)
(* Similarity (whiplash.vector_math, specification 4.5).  A cosine is kept *)
(* as the exact fraction sign(a.b) * (a.b)^2 / (|a|^2 * |b|^2) in lowest   *)
(* terms: it orders as the cosine does and is 1/1 exactly when the cosine  *)
(* is 1.0.  For a zero norm the specification leaves two outcomes open,    *)
(* NumericError or a similarity of 0; zero_norm says which one the build   *)
(* has.                                                                    *)
(***************************************************************************)
ZeroNormPolicies == {"error", "zero"}

RECURSIVE Gcd(_, _)
Gcd(a, b) == IF b = 0 THEN a ELSE Gcd(b, a % b)

Abs(x) == IF x < 0 THEN -x ELSE x

Frac(n, d) == LET g == Gcd(Abs(n), d) IN [num |-> n \div g, den |-> d \div g]

One == [num |-> 1, den |-> 1]

Zero == [num |-> 0, den |-> 1]

Less(s, t) == s.num * t.den < t.num * s.den

\* cosine_similarity(a, b): [err, dist]
cosine_similarity(policy, a, b) ==
    IF Len(a) # Len(b) THEN [err |-> ShapeMismatch, dist |-> Zero]
    ELSE IF Dot(a, a) = 0 \/ Dot(b, b) = 0
    THEN IF policy = "error" THEN [err |-> NumericError, dist |-> Zero]
         ELSE [err |-> NoError, dist |-> Zero]
    ELSE LET d == Dot(a, b)
         IN [err |-> NoError,
             dist |-> Frac((IF d < 0 THEN -1 ELSE 1) * d * d, Dot(a, a) * Dot(b, b))]

\* index i comes before index j in the selection: higher similarity first,
\* equal similarities in index order (the deterministic tie-break)
Before(dists, i, j) == Less(dists[j], dists[i]) \/ (dists[i] = dists[j] /\ i < j)

\* cosine_similarity_bulk(query, vectors, k): [err, idx], idx the set of the
\* indices of the k vectors most similar to the query
cosine_similarity_bulk(policy, query, vectors, k) ==
    LET sims == [i \in 1..Len(vectors) |-> cosine_similarity(policy, query, vectors[i])]
    IN IF \E i \in 1..Len(vectors) : sims[i].err # NoError
       THEN [err |-> sims[CHOOSE i \in 1..Len(vectors) :
                              /\ sims[i].err # NoError
                              /\ \A j \in 1..(i - 1) : sims[j].err = NoError].err,
             idx |-> {}]
       ELSE LET dists == [i \in 1..Len(vectors) |-> sims[i].dist]
            IN [err |-> NoError,
                idx |-> {i \in 1..Len(vectors) :
                           Cardinality({j \in 1..Len(vectors) : Before(dists, j, i)}) < k}]

\* the members of a set of indices in the order a sequence lists them
RECURSIVE Arrange(_, _)
Arrange(idx, pick) ==
    IF pick = <<>> THEN <<>>
    ELSE (IF Head(pick) \in idx THEN <<Head(pick)>> ELSE <<>>) \o Arrange(idx, Tail(pick))

\* a mutant: the candidates are left in the order of the selection
Unsorted(cands) == cands

\* candidates.sort(key=lambda x: x.dist, reverse=True): stable, descending
RECURSIVE SortByDist(_)
SortByDist(cands) ==
    IF cands = <<>> THEN <<>>
    ELSE LET sorted == SortByDist(SubSeq(cands, 1, Len(cands) - 1))
             x == cands[Len(cands)]
             n == Cardinality({i \in 1..Len(sorted) : ~Less(sorted[i].dist, x.dist)})
         IN SubSeq(sorted, 1, n) \o <<x>> \o SubSeq(sorted, n + 1, Len(sorted))

(***************************************************************************)
(* Collection.search.  order is the order in which list(candidate_ids)     *)
(* lists the candidate set, which the code does not fix; the selection     *)
(* returns its indices in index order, so that every order of the selected *)
(* candidates reaches the final sort.                                      *)
(***************************************************************************)
\* a mutant: only the first plane is hashed
BucketKeysFirst(cfg, query, planes) ==
    IF planes = <<>> THEN [err |-> NoError, keys |-> <<>>]
    ELSE LET h == hash_key(cfg, query, Head(planes))
         IN IF h.err # NoError THEN [err |-> h.err, keys |-> <<>>]
            ELSE [err |-> NoError, keys |-> <<h.key>>]

\* bucket_keys = [self.hash_key(query, plane_id) for plane_id in ...keys()]
RECURSIVE BucketKeys(_, _, _)
BucketKeys(cfg, query, planes) ==
    IF planes = <<>> THEN [err |-> NoError, keys |-> <<>>]
    ELSE LET h == hash_key(cfg, query, Head(planes))
         IN IF h.err # NoError THEN [err |-> h.err, keys |-> <<>>]
            ELSE LET rest == BucketKeys(cfg, query, Tail(planes))
                 IN [err |-> rest.err, keys |-> <<h.key>> \o rest.keys]

\* a mutant: the ids of every bucket of the table, whatever the keys
AllBucketIds(bt, keys) == UNION {bt[key] : key \in DOMAIN bt}

\* {cid for bucket in buckets for cid in bucket.get("ids", set())}
CandidateIds(bt, keys) == UNION {BucketIds(bt, keys[i]) : i \in 1..Len(keys)}

\* get_bulk_items(ids): Vector.from_dynamo of every item found
get_bulk_items(vt, ids) ==
    LET data == GetBulk(vt, ids)
    IN [i \in 1..Len(data) |-> from_dynamo(data[i])]

\* a mutant: the candidates are taken by position, not by selected index
CandidatesByPosition(policy, query, lookup_items, closest_indices) ==
    [n \in 1..Len(closest_indices) |->
        [id |-> lookup_items[n].id,
         vector |-> lookup_items[n].vector,
         dist |-> cosine_similarity(policy, query, lookup_items[n].vector).dist]]

\* [CompVector(id, vector, dist=cosine_similarity(...)) for i in closest_indices]
Candidates(policy, query, lookup_items, closest_indices) ==
    [n \in 1..Len(closest_indices) |->
        [id |-> lookup_items[closest_indices[n]].id,
         vector |-> lookup_items[closest_indices[n]].vector,
         dist |-> cosine_similarity(policy, query,
                                    lookup_items[closest_indices[n]].vector).dist]]

search(cfg, policy, vt, bt, query, k, order) ==
    IF DOMAIN cfg.uniform_planes = {}
    THEN [err |-> PlanesNotCreated, result |-> <<>>, calls |-> <<>>]
    ELSE LET bk == BucketKeys(cfg, query, PlaneKeys(cfg))
         IN IF bk.err # NoError
            THEN [err |-> bk.err, result |-> <<>>, calls |-> <<>>]
            ELSE LET lookup_items == get_bulk_items(vt, order)
                     reads == <<CallGetBatch(bk.keys), CallGetBulk(order)>>
                 IN IF \E i \in 1..Len(order) :
                          order[i] \in DOMAIN vt /\ ~IsVectorItem(vt[order[i]])
                    THEN [err |-> RecordKeyError, result |-> <<>>, calls |-> reads]
                    ELSE IF Len(lookup_items) = 0
                    THEN [err |-> NoError, result |-> <<>>, calls |-> reads]
                    ELSE LET closest ==
                                 cosine_similarity_bulk(policy, query,
                                     [i \in 1..Len(lookup_items) |-> lookup_items[i].vector], k)
                             closest_indices ==
                                 Arrange(closest.idx, [i \in 1..Len(lookup_items) |-> i])
                             candidates ==
                                 Candidates(policy, query, lookup_items, closest_indices)
                         IN IF closest.err # NoError
                            THEN [err |-> closest.err, result |-> <<>>, calls |-> reads]
                            ELSE [err |-> NoError, result |-> SortByDist(candidates),
                                  calls |-> reads]

\* the orders list(candidate_ids) can have for this query
SearchOrders(cfg, bt, query) ==
    LET bk == BucketKeys(cfg, query, PlaneKeys(cfg))
    IN IF DOMAIN cfg.uniform_planes = {} \/ bk.err # NoError THEN {<<>>}
       ELSE Orderings(CandidateIds(bt, bk.keys))

(***************************************************************************)
(* Metadata.  insert_metadata takes a dictionary id -> dictionary; it is   *)
(* modelled as the sequence of its (k, v) items.  A value either has the   *)
(* key "metadata" that search_with_metadata reads, or it has not.          *)
(***************************************************************************)
MetaValues == {[metadata |-> "m1"], [title |-> "t1"]}

MetaMaps ==
    UNION {[1..Len(ks) -> MetaValues] \X {ks} : ks \in SeqsNoDup(Ids, Cardinality(Ids))}

\* {**v, "id": f"meta#{k}"}
MetaItem(k, v) ==
    [f \in DOMAIN v \cup {"id"} |-> IF f = "id" THEN MetaKey(k) ELSE v[f]]

\* mm = <<values, keys>>
insert_metadata(mm) ==
    [err |-> NoError,
     calls |-> <<CallPutBatch([n \in 1..Len(mm[2]) |-> MetaItem(mm[2][n], mm[1][n])])>>]

\* meta["id"][len("meta#"):]
StripMeta(key) == SubSeq(key, Len(<<"meta#">>) + 1, Len(key))

\* return [x for x in joined.values() if "metadata" in x]
WithMetadata(joined, metadata) ==
    SelectSeq(joined, LAMBDA x : \E n \in 1..Len(metadata) : StripMeta(metadata[n].id) = x.id)

search_with_metadata(cfg, policy, vt, bt, query, k, order) ==
    LET s == search(cfg, policy, vt, bt, query, k, order)
        found == s.result
        ids == [n \in 1..Len(found) |-> MetaKey(found[n].id)]
        metadata == GetBulk(vt, ids)
        calls == s.calls \o <<CallGetBulk(ids)>>
        \* x.to_dict() without "vector", then joined[vector_id]["metadata"] = ...
        joined == [n \in 1..Len(found) |->
                      IF MetaKey(found[n].id) \in DOMAIN vt
                         /\ "metadata" \in DOMAIN vt[MetaKey(found[n].id)]
                      THEN [id |-> found[n].id, dist |-> found[n].dist,
                            metadata |-> vt[MetaKey(found[n].id)].metadata]
                      ELSE [id |-> found[n].id, dist |-> found[n].dist]]
    IN IF s.err # NoError THEN s
       ELSE IF \E n \in 1..Len(metadata) : "metadata" \notin DOMAIN metadata[n]
       THEN [err |-> MetadataKeyError, result |-> <<>>, calls |-> calls]
       ELSE [err |-> NoError, result |-> WithMetadata(joined, metadata), calls |-> calls]

(***************************************************************************)
(* Point and bulk reads.                                                   *)
(***************************************************************************)
\* a mutant: a missing record is returned as nothing, without an error
get_item_unchecked(vt, id) ==
    LET item == Get(vt, id)
    IN [err |-> NoError,
        result |-> [n \in 1..Len(item) |-> from_dynamo(item[n])],
        calls |-> <<CallGet(id)>>]

\* a mutant: a missing record is created, empty, by the read
get_item_creating(vt, id) ==
    LET item == Get(vt, id)
    IN IF item = <<>>
       THEN [err |-> VectorNotFound, result |-> <<>>,
             calls |-> <<CallGet(id), CallPut([id |-> id, values |-> <<>>])>>]
       ELSE [err |-> NoError, result |-> <<from_dynamo(item[1])>>,
             calls |-> <<CallGet(id)>>]

get_item(vt, id) ==
    LET item == Get(vt, id)
    IN IF item = <<>>
       THEN [err |-> VectorNotFound, result |-> <<>>, calls |-> <<CallGet(id)>>]
       ELSE [err |-> NoError, result |-> <<from_dynamo(item[1])>>,
             calls |-> <<CallGet(id)>>]

(***************************************************************************)
(* The state.  last describes the call that ended last: the operation,     *)
(* its arguments, how it ended, what it returned and the storage calls it  *)
(* made.  pending holds the calls of the concurrent callers that are under *)
(* way (ConcSpec).                                                         *)
(***************************************************************************)
NoCall ==
    [op |-> "none", vecs |-> <<>>, query |-> <<>>, k |-> 0, ids |-> <<>>,
     meta |-> <<>>, plane |-> 0, err |-> NoError, result |-> <<>>, calls |-> <<>>]

Procs == 1..NumProcs

Idle == [op |-> "none", vecs |-> <<>>, err |-> NoError, todo |-> <<>>, state |-> "idle"]

Init ==
    /\ config \in Configs
    /\ zero_norm \in ZeroNormPolicies
    /\ vector_table = EmptyTable
    /\ bucket_table = EmptyTable
    /\ last = NoCall
    /\ pending = [p \in Procs |-> Idle]

Tables == [vt |-> vector_table, bt |-> bucket_table]

PlanesGenerated == DOMAIN config.uniform_planes # {}

\* a handler ran to its end (or to its exception): the tables are what its
\* storage calls leave them
Ran(r, call) ==
    LET tabs == ApplyCalls(Tables, r.calls)
    IN /\ vector_table' = tabs.vt
       /\ bucket_table' = tabs.bt
       /\ last' = [call EXCEPT !.err = r.err, !.result = r.result, !.calls = r.calls]

NoResult(r) == [err |-> r.err, result |-> <<>>, calls |-> r.calls]

Insert(v) ==
    /\ Ran(NoResult(insert(config, v)), [NoCall EXCEPT !.op = "insert", !.vecs = <<v>>])
    /\ UNCHANGED <<config, zero_norm, pending>>

InsertBatch(vectors) ==
    /\ Ran(NoResult(insert_batch(config, vectors)),
           [NoCall EXCEPT !.op = "insert_batch", !.vecs = vectors])
    /\ UNCHANGED <<config, zero_norm, pending>>

InsertMetadata(mm) ==
    /\ Ran(NoResult(insert_metadata(mm)),
           [NoCall EXCEPT !.op = "insert_metadata", !.meta = mm])
    /\ UNCHANGED <<config, zero_norm, pending>>

Search(query, k) ==
    /\ \E order \in SearchOrders(config, bucket_table, query) :
          Ran(search(config, zero_norm, vector_table, bucket_table, query, k, order),
              [NoCall EXCEPT !.op = "search", !.query = query, !.k = k])
    /\ UNCHANGED <<config, zero_norm, pending>>

SearchWithMetadata(query, k) ==
    /\ \E order \in SearchOrders(config, bucket_table, query) :
          Ran(search_with_metadata(config, zero_norm, vector_table, bucket_table,
                                   query, k, order),
              [NoCall EXCEPT !.op = "search_with_metadata", !.query = query, !.k = k])
    /\ UNCHANGED <<config, zero_norm, pending>>

GetItem(id) ==
    /\ Ran(get_item(vector_table, id), [NoCall EXCEPT !.op = "get_item", !.ids = <<id>>])
    /\ UNCHANGED <<config, zero_norm, pending>>

GetBulkItems(ids) ==
    /\ Ran([err |-> NoError, result |-> get_bulk_items(vector_table, ids),
            calls |-> <<CallGetBulk(ids)>>],
           [NoCall EXCEPT !.op = "get_bulk_items", !.ids = ids])
    /\ UNCHANGED <<config, zero_norm, pending>>

HashKey(vector, plane_id) ==
    /\ Ran([err |-> hash_key(config, vector, plane_id).err,
            result |-> <<hash_key(config, vector, plane_id).key>>, calls |-> <<>>],
           [NoCall EXCEPT !.op = "hash_key", !.query = vector, !.plane = plane_id])
    /\ UNCHANGED <<config, zero_norm, pending>>

\* the batches insert_batch is called with: vectors of distinct ids
BatchesOf(values) ==
    {b \in UNION {[1..n -> [id : Ids, vector : values]] : n \in 0..MaxBatch} :
        \A i, j \in 1..Len(b) : b[i].id = b[j].id => i = j}

(***************************************************************************)
(* Spec: the index and its retrieval.  Vectors of the right length are     *)
(* inserted, one by one and in batches, and searched for.                  *)
(***************************************************************************)
SearchValues == {<<1, 0>>, <<1, 1>>, <<0, 0>>}

SearchBatches == BatchesOf(SearchValues)

Next ==
    \/ \E v \in [id : Ids, vector : SearchValues] : Insert(v)
    \/ \E b \in SearchBatches : InsertBatch(b)
    \/ \E q \in QueryValues, k \in 0..MaxK : Search(q, k)

Spec == Init /\ [][Next]_vars

(***************************************************************************)
(* StoreSpec: the two tables.  Vectors, some of the wrong length, are      *)
(* inserted one by one and in batches, and read back by id.                *)
(***************************************************************************)
StoreValues == {<<1, 0>>, <<1, 1>>, <<1>>}

StoreBatches == BatchesOf(StoreValues)

ReadIds == Ids \cup {AbsentId}

NextStore ==
    \/ \E v \in [id : Ids, vector : StoreValues] : Insert(v)
    \/ \E b \in StoreBatches : InsertBatch(b)
    \/ \E id \in ReadIds : GetItem(id)
    \/ \E ids \in SeqsNoDup(ReadIds, MaxBatch) : GetBulkItems(ids)
    \/ \E v \in StoreValues, p \in DOMAIN PlanesA \cup {Cardinality(DOMAIN PlanesA)} :
          HashKey(v, p)

StoreSpec == Init /\ [][NextStore]_vars

(***************************************************************************)
(* NoPlanesSpec: an index whose planes were never generated.               *)
(***************************************************************************)
InitNoPlanes == Init /\ config.uniform_planes = NoPlanes

NextNoPlanes ==
    \/ \E v \in Vectors : Insert(v)
    \/ \E b \in StoreBatches : InsertBatch(b)
    \/ \E mm \in MetaMaps : InsertMetadata(mm)
    \/ \E q \in QueryValues, k \in 0..MaxK : Search(q, k)
    \/ \E v \in QueryValues, p \in DOMAIN PlanesA : HashKey(v, p)

NoPlanesSpec == InitNoPlanes /\ [][NextNoPlanes]_vars

(***************************************************************************)
(* ConcSpec: independent callers on the same two tables.  Each caller      *)
(* makes one call, insert or insert_batch; the storage calls of the        *)
(* callers interleave, each of them atomic in the store.  The hashing      *)
(* between two storage calls reads only the immutable config, so a call's  *)
(* storage calls are known when it starts.                                 *)
(***************************************************************************)
ConcValues == {<<1, 0>>, <<1, 1>>}

ConcBatches == BatchesOf(ConcValues)

\* the writers compute no similarity
InitConc == Init /\ PlanesGenerated /\ zero_norm = "zero"

Started(p, op, vecs, r) ==
    /\ pending[p].state = "idle"
    /\ pending' = [pending EXCEPT ![p] =
                      [op |-> op, vecs |-> vecs, err |-> r.err, todo |-> r.calls,
                       state |-> IF r.calls = <<>> THEN "done" ELSE "running"]]
    /\ UNCHANGED <<config, zero_norm, vector_table, bucket_table, last>>

CallInsert(p, v) ==
    /\ Started(p, "insert", <<v>>, insert(config, v))

CallInsertBatch(p, vectors) ==
    /\ Started(p, "insert_batch", vectors, insert_batch(config, vectors))

\* the next storage call of caller p reaches the store
StorageStep(p) ==
    /\ pending[p].state = "running"
    /\ LET tabs == ApplyCall(Tables, Head(pending[p].todo))
       IN /\ vector_table' = tabs.vt
          /\ bucket_table' = tabs.bt
    /\ pending' = [pending EXCEPT ![p].todo = Tail(@),
                                  ![p].state = IF Tail(pending[p].todo) = <<>>
                                               THEN "done" ELSE "running"]
    /\ UNCHANGED <<config, zero_norm, last>>

NextConc ==
    \/ \E p \in Procs, v \in [id : Ids, vector : ConcValues] : CallInsert(p, v)
    \/ \E p \in Procs, b \in ConcBatches : CallInsertBatch(p, b)
    \/ \E p \in Procs : StorageStep(p)

ConcSpec == InitConc /\ [][NextConc]_vars

(***************************************************************************)
(* MetaSpec: vectors, their metadata records and the joined search.        *)
(***************************************************************************)
NextMeta ==
    \/ \E v \in [id : Ids, vector : ConcValues] : Insert(v)
    \/ \E mm \in MetaMaps : InsertMetadata(mm)
    \/ \E q \in ConcValues, k \in 0..MaxK : SearchWithMetadata(q, k)

MetaSpec == Init /\ [][NextMeta]_vars

(***************************************************************************)
(* BatchSpec: the two ways of writing, insert and insert_batch, with       *)
(* vectors of the right and of the wrong length.                           *)
(***************************************************************************)
NextBatch ==
    \/ \E v \in [id : Ids, vector : StoreValues] : Insert(v)
    \/ \E b \in StoreBatches : InsertBatch(b)

BatchSpec == Init /\ [][NextBatch]_vars

(***************************************************************************)
(* FaultSpec: concurrent callers whose storage calls can fail.  A failing  *)
(* storage call raises in the caller, which ends the insert or             *)
(* insert_batch there; the store may or may not have applied the call.     *)
(* The caller may then repeat the whole call with the same arguments.      *)
(***************************************************************************)
\* two ids that share every bucket, and a vector of the wrong length
FaultVectors ==
    {[id |-> <<"a">>, vector |-> <<1, 0>>], [id |-> <<"b">>, vector |-> <<1, 0>>],
     [id |-> <<"a">>, vector |-> <<1>>]}

FaultBatches ==
    {<<[id |-> <<"a">>, vector |-> <<1, 0>>], [id |-> <<"b">>, vector |-> <<1, 0>>]>>,
     <<[id |-> <<"b">>, vector |-> <<1, 0>>], [id |-> <<"a">>, vector |-> <<1>>]>>}

NoSnapshot == <<>>

\* the storage calls of the call caller p makes, from its arguments
ProgramOf(c) ==
    IF c.op = "insert" THEN insert(config, c.vecs[1]) ELSE insert_batch(config, c.vecs)

\* caller p enters insert or insert_batch; snap is the tables it found
Begun(p, op, vecs, snap) ==
    LET r == ProgramOf([op |-> op, vecs |-> vecs])
    IN /\ pending[p].state = "idle"
       /\ pending' = [pending EXCEPT ![p] =
                         [op |-> op, vecs |-> vecs, err |-> r.err, todo |-> r.calls,
                          state |-> IF r.calls = <<>> THEN "done" ELSE "running",
                          start |-> snap, retried |-> FALSE]]
       /\ UNCHANGED <<config, zero_norm, vector_table, bucket_table, last>>

BeginInsert(p, v) ==
    /\ Begun(p, "insert", <<v>>, NoSnapshot)

BeginInsertBatch(p, vectors) ==
    /\ Begun(p, "insert_batch", vectors, NoSnapshot)

\* the next storage call of caller p raises; the exception ends the call
StorageFail(p) ==
    /\ pending[p].state = "running"
    /\ \E applied \in BOOLEAN :
          LET tabs == IF applied THEN ApplyCall(Tables, Head(pending[p].todo))
                      ELSE Tables
          IN /\ vector_table' = tabs.vt
             /\ bucket_table' = tabs.bt
    /\ pending' = [pending EXCEPT ![p].todo = <<>>, ![p].err = StorageError,
                                  ![p].state = "failed"]
    /\ UNCHANGED <<config, zero_norm, last>>

\* the caller repeats the whole call with the same arguments
Retry(p) ==
    /\ pending[p].state = "failed"
    /\ LET r == ProgramOf(pending[p])
       IN pending' = [pending EXCEPT ![p].todo = r.calls, ![p].err = r.err,
                                     ![p].state = "running", ![p].retried = TRUE]
    /\ UNCHANGED <<config, zero_norm, vector_table, bucket_table, last>>

NextFault ==
    \/ \E p \in Procs, v \in FaultVectors : BeginInsert(p, v)
    \/ \E p \in Procs, b \in FaultBatches : BeginInsertBatch(p, b)
    \/ \E p \in Procs : StorageStep(p)
    \/ \E p \in Procs : StorageFail(p)
    \/ \E p \in Procs : Retry(p)

FaultSpec == InitConc /\ [][NextFault]_vars

(***************************************************************************)
(* RetrySpec: one call at a time.  A call whose storage call fails is      *)
(* repeated by its caller; each caller remembers the tables its call       *)
(* started from.                                                           *)
(***************************************************************************)
Alone == \A q \in Procs : pending[q].state \in {"idle", "done"}

SoloInsert(p, v) ==
    /\ Alone
    /\ Begun(p, "insert", <<v>>, Tables)

SoloInsertBatch(p, vectors) ==
    /\ Alone
    /\ Begun(p, "insert_batch", vectors, Tables)

\* the batches that hold every id, in one order of the ids
RetryBatches ==
    {b \in ConcBatches : Len(b) = Cardinality(Ids) /\ b[1].id = <<"a">>}

NextRetry ==
    \/ \E p \in Procs, v \in [id : Ids, vector : ConcValues] : SoloInsert(p, v)
    \/ \E p \in Procs, b \in RetryBatches : SoloInsertBatch(p, b)
    \/ \E p \in Procs : StorageStep(p)
    \/ \E p \in Procs : StorageFail(p)
    \/ \E p \in Procs : Retry(p)

RetrySpec == InitConc /\ [][NextRetry]_vars

(***************************************************************************)
(* PrefixSpec: vector ids that begin with the metadata prefix.  The id     *)
(* "meta#a" is the sequence <<"meta#", "a">>, which is also the key of the *)
(* metadata record of "a".                                                 *)
(***************************************************************************)
PrefixIds == {<<"a">>, MetaKey(<<"a">>)}

PrefixMaps == {mm \in MetaMaps : mm[2] = <<<<"a">>>>}

NextPrefix ==
    \/ \E v \in [id : PrefixIds, vector : ConcValues] : Insert(v)
    \/ \E b \in {<<v>> : v \in [id : PrefixIds, vector : ConcValues]} : InsertBatch(b)
    \/ \E mm \in PrefixMaps : InsertMetadata(mm)
    \/ \E q \in ConcValues, k \in 0..MaxK : SearchWithMetadata(q, k)

PrefixSpec == Init /\ [][NextPrefix]_vars

(***************************************************************************)
(* ReadSpec: the five operations that read, on tables that insert and      *)
(* insert_metadata fill.  The reads succeed and fail: on an index without  *)
(* planes, for an id that is absent, for a query of the wrong length and   *)
(* for a vector of norm zero.                                              *)
(***************************************************************************)
ReadValues == {<<1, 0>>, <<0, 0>>}

ReadQueries == ReadValues \cup {<<1>>}

InitRead == Init /\ zero_norm = "error"

NextRead ==
    \/ \E v \in [id : Ids, vector : ReadValues] : Insert(v)
    \/ \E mm \in PrefixMaps : InsertMetadata(mm)
    \/ \E q \in ReadQueries, k \in 1..MaxK : Search(q, k)
    \/ \E q \in ReadQueries, k \in 1..MaxK : SearchWithMetadata(q, k)
    \/ \E id \in ReadIds : GetItem(id)
    \/ \E ids \in SeqsNoDup(ReadIds, MaxBatch) : GetBulkItems(ids)
    \/ \E v \in ReadQueries, p \in DOMAIN PlanesA \cup {Cardinality(DOMAIN PlanesA)} :
          HashKey(v, p)

ReadSpec == InitRead /\ [][NextRead]_vars

(***************************************************************************)
(* What the claims speak of.                                               *)
(***************************************************************************)
\* the bucket of a vector for one plane, hashed as the specification says
BucketOf(vector, plane_id) ==
    BucketIds(bucket_table, vector_plane_hash(vector, config.uniform_planes[plane_id]))

\* the ids in the buckets of a query of the right length
QueryCandidates(query) ==
    UNION {BucketOf(query, p) : p \in DOMAIN config.uniform_planes}

\* the stored vector of an id
StoredVector(id) == vector_table[id].values

\* what a completed insert of (id, vector) leaves: the record and the id in
\* the vector's bucket of every plane
Inserted(id, vector) ==
    /\ PlanesGenerated
    /\ Len(vector) = config.n_features
    /\ id \in DOMAIN vector_table
    /\ StoredVector(id) = vector
    /\ \A p \in DOMAIN config.uniform_planes : id \in BucketOf(vector, p)

NonZero(vector) == \E i \in 1..Len(vector) : vector[i] # 0

\* d is the similarity of a and b: 1/1 for equal directions
IsCosineOf(d, a, b) ==
    IF ~NonZero(a) \/ ~NonZero(b) THEN d = Zero
    ELSE /\ d.den > 0
         /\ d.num * (Dot(a, a) * Dot(b, b))
              = d.den * (IF Dot(a, b) < 0 THEN -1 ELSE 1) * Dot(a, b) * Dot(a, b)

Returned == last.err = NoError

\* result n is an id with score 1.0, before every result of lower score
RankedFirst(id) ==
    \E n \in 1..Len(last.result) :
        /\ last.result[n].id = id
        /\ last.result[n].dist = One
        /\ \A m \in 1..Len(last.result) : Less(last.result[m].dist, One) => n < m

\* C1, as stated (here already for every v of non-zero norm): on an index
\* with generated planes, after insert(v) has completed, search(v.values, k)
\* with k >= 1 returns v.id with score 1.0, ranked before every returned
\* candidate of strictly lower similarity.
C1_InsertThenSearch_AsStated ==
    (last.op = "search" /\ last.k >= 1 /\ NonZero(last.query)
     /\ last.err # NumericError) =>
        \A id \in Ids : Inserted(id, last.query) => (Returned /\ RankedFirst(id))

\* the candidates whose stored vector has similarity 1.0 with the query
PerfectMatches(query) ==
    {id \in QueryCandidates(query) :
        /\ Len(StoredVector(id)) = Len(query)
        /\ NonZero(StoredVector(id))
        /\ IsCosineOf(One, query, StoredVector(id))}

\* C1, amended: for v of non-zero norm, a search(v.values, k) with k >= 1
\* that returns, while at most k candidates have similarity 1.0 with v,
\* returns v.id with score 1.0, ranked before every result of lower score.
C1_InsertThenSearch ==
    (last.op = "search" /\ last.k >= 1 /\ Returned /\ NonZero(last.query)) =>
        \A id \in Ids :
            (Inserted(id, last.query)
             /\ Cardinality(PerfectMatches(last.query)) <= last.k)
            => RankedFirst(id)

C1_Witness ==
    /\ last.op = "search"
    /\ Returned
    /\ Len(last.result) = 2
    /\ Inserted(last.result[1].id, last.query)
    /\ last.result[1].dist = One
    /\ Less(last.result[2].dist, One)

Min(a, b) == IF a < b THEN a ELSE b

\* C4: a search(query, k) that returns, returns exactly min(k, number of
\* candidate ids in the query's buckets) results, of distinct candidate ids,
\* each with the cosine similarity of the query and the id's stored vector
\* as its score, in descending order of score.
C4_TopK ==
    (last.op = "search" /\ Returned) =>
        LET res == last.result
        IN /\ Len(res) = Min(last.k, Cardinality(QueryCandidates(last.query)))
           /\ \A n \in 1..Len(res) :
                 /\ res[n].id \in QueryCandidates(last.query)
                 /\ IsCosineOf(res[n].dist, last.query, StoredVector(res[n].id))
           /\ \A n, m \in 1..Len(res) :
                 /\ n < m => ~Less(res[n].dist, res[m].dist)
                 /\ res[n].id = res[m].id => n = m

\* two candidates of different similarity, of which k = 1 keeps the closer
C4_Witness ==
    /\ last.op = "search"
    /\ Returned
    /\ last.k = 1
    /\ Len(last.result) = 1
    /\ \E id \in QueryCandidates(last.query) :
          /\ id # last.result[1].id
          /\ ~IsCosineOf(last.result[1].dist, last.query, StoredVector(id))

\* the query's buckets hold no id
NoCandidates(query) ==
    \A p \in DOMAIN config.uniform_planes :
        BucketIds(bucket_table, vector_plane_hash(query, config.uniform_planes[p])) = {}

\* C5, as stated: search on an index with zero inserted vectors returns an
\* empty sequence and never raises an error.
C5_EmptySearch_AsStated ==
    (last.op = "search" /\ vector_table = EmptyTable) =>
        (Returned /\ last.result = <<>>)

\* C5, amended: on an index with generated planes, a search with a query of
\* n_features components whose buckets hold no id (an index with zero
\* inserted vectors among them) returns an empty sequence and raises no error.
C5_EmptySearch ==
    (last.op = "search" /\ PlanesGenerated /\ Len(last.query) = config.n_features
     /\ NoCandidates(last.query)) =>
        (Returned /\ last.result = <<>>)

\* a search that finds no bucket for its keys in an index that is not empty
C5_Witness ==
    /\ last.op = "search"
    /\ PlanesGenerated
    /\ Len(last.query) = config.n_features
    /\ vector_table # EmptyTable
    /\ NoCandidates(last.query)
    /\ last.result = <<>>
    /\ last.k >= 1

WriteOps == {"insert", "insert_batch"}

\* some vector of the call has a length other than n_features
Mismatched(call) ==
    \E n \in 1..Len(call.vecs) : Len(call.vecs[n].vector) # config.n_features

\* C3, as stated: insert and insert_batch of a vector whose length differs
\* from n_features fail with ConfigurationError and write nothing: the
\* vector table and every bucket are after the call what they were before.
C3_DimensionMismatch_AsStated ==
    [][(last'.op \in WriteOps /\ Mismatched(last')) =>
          /\ last'.err \in ConfigurationError
          /\ vector_table' = vector_table
          /\ bucket_table' = bucket_table]_vars

\* the union calls of the last call that add to one bucket key
UnionsOn(call, key) == {n \in 1..Len(call.calls) : IsUnion(call.calls[n])
                                                   /\ call.calls[n].key = key}

BucketKeysOfTable == DOMAIN bucket_table \cup DOMAIN bucket_table'

\* C6: an insert or insert_batch that adds to a bucket only ids the bucket
\* already holds leaves the bucket's id-set as it was: same members, same size.
C6_IdempotentUnion ==
    [][\A key \in BucketKeysOfTable :
          (/\ last'.op \in WriteOps
           /\ UnionsOn(last', key) # {}
           /\ \A n \in UnionsOn(last', key) :
                 last'.calls[n].ids \subseteq BucketIds(bucket_table, key))
          => /\ BucketIds(bucket_table', key) = BucketIds(bucket_table, key)
             /\ Cardinality(BucketIds(bucket_table', key))
                  = Cardinality(BucketIds(bucket_table, key))]_vars

\* an insert of an id that an earlier insert, of other values, had put in
\* the same bucket, beside another id
C6_Witness ==
    /\ last.op = "insert"
    /\ Returned
    /\ LET v == last.vecs[1]
       IN \E p \in DOMAIN config.uniform_planes :
             /\ Cardinality(BucketOf(v.vector, p)) = 2
             /\ \E key \in DOMAIN bucket_table :
                   /\ v.id \in bucket_table[key]
                   /\ \A q \in DOMAIN config.uniform_planes :
                         key # vector_plane_hash(v.vector, config.uniform_planes[q])

PlaneOps == {"insert", "insert_batch", "search", "hash_key"}

\* C8: on an index whose plane mapping is empty, insert, insert_batch,
\* search and hash_key fail with the planes-not-created error before any
\* storage call is made, and the two tables are unchanged.
C8_PlanesNotGenerated ==
    /\ [](~PlanesGenerated /\ last.op \in PlaneOps =>
             last.err = PlanesNotCreated /\ last.calls = <<>>)
    /\ [][(~PlanesGenerated /\ last'.op \in PlaneOps) =>
             vector_table' = vector_table /\ bucket_table' = bucket_table]_vars

\* a failed insert_batch on an index that holds metadata records only
C8_Witness ==
    /\ ~PlanesGenerated
    /\ last.op = "insert_batch"
    /\ Len(last.vecs) = MaxBatch
    /\ last.err = PlanesNotCreated
    /\ vector_table # EmptyTable

\* the bucket keys a batch touches, and the ids of the batch hashing to a key
BatchKeys(vectors) ==
    {vector_plane_hash(vectors[n].vector, config.uniform_planes[p]) :
        n \in 1..Len(vectors), p \in DOMAIN config.uniform_planes}

BatchIdsOf(vectors, key) ==
    {vectors[n].id : n \in {m \in 1..Len(vectors) :
        \E p \in DOMAIN config.uniform_planes :
            vector_plane_hash(vectors[m].vector, config.uniform_planes[p]) = key}}

\* C9: an insert_batch that ends without error has written all vector
\* records in one put_batch and then one set-union update per distinct
\* bucket key of the batch, each with all ids of the batch hashing to the key.
C9_BatchWrites ==
    (last.op = "insert_batch" /\ Returned) =>
        LET calls == last.calls
            updates == SubSeq(calls, 2, Len(calls))
        IN /\ Len(calls) >= 1
           /\ calls[1].call = "put_batch"
           /\ calls[1].items = [n \in 1..Len(last.vecs) |->
                                   [id |-> last.vecs[n].id, values |-> last.vecs[n].vector]]
           /\ Len(updates) = Cardinality(BatchKeys(last.vecs))
           /\ \A n \in 1..Len(updates) :
                 /\ updates[n].call = "update_item"
                 /\ updates[n].key \in BatchKeys(last.vecs)
                 /\ updates[n].ids = BatchIdsOf(last.vecs, updates[n].key)
                 /\ \A m \in 1..Len(updates) : updates[m].key = updates[n].key => m = n

\* a batch of two vectors with a bucket in common: one update carries both ids
C9_Witness ==
    /\ last.op = "insert_batch"
    /\ Returned
    /\ Len(last.vecs) = 2
    /\ \E n \in 1..Len(last.calls) :
          /\ last.calls[n].call = "update_item"
          /\ Cardinality(last.calls[n].ids) = 2
    /\ Len(last.calls) < 1 + 2 * Cardinality(DOMAIN config.uniform_planes)

\* the ids of a sequence that have a record in the vector table
Found(ids) == SelectSeq(ids, LAMBDA id : id \in DOMAIN vector_table)

\* C10: get_item(id) fails with the not-found error when the vector table
\* has no record of the id and returns the record otherwise; get_bulk_items
\* never fails and returns the records of exactly the ids that exist.
C10_Reads ==
    /\ last.op = "get_item" =>
          LET id == last.ids[1]
          IN IF id \in DOMAIN vector_table
             THEN /\ Returned
                  /\ last.result = <<[id |-> id, vector |-> StoredVector(id)]>>
             ELSE last.err \in NotFoundError
    /\ last.op = "get_bulk_items" =>
          /\ Returned
          /\ Len(last.result) = Len(Found(last.ids))
          /\ \A n \in 1..Len(last.result) :
                last.result[n] = [id |-> Found(last.ids)[n],
                                  vector |-> StoredVector(Found(last.ids)[n])]

\* a bulk read of a stored and a missing id: the result is shorter
C10_Witness ==
    /\ last.op = "get_bulk_items"
    /\ Len(last.ids) = 2
    /\ Len(last.result) = 1
    /\ AbsentId \in Range(last.ids)

AllDone == \A p \in Procs : pending[p].state = "done"

\* C2: once all concurrent insert and insert_batch calls have completed,
\* every bucket a vector of a call that ended without error hashes to
\* contains the vector's id, whatever the interleaving of the calls.
C2_NoLostIds ==
    AllDone =>
        \A p \in Procs :
            pending[p].err = NoError =>
                \A n \in 1..Len(pending[p].vecs) :
                    \A pl \in DOMAIN config.uniform_planes :
                        pending[p].vecs[n].id
                            \in BucketOf(pending[p].vecs[n].vector, pl)

\* an insert and an insert_batch of different ids have met in one bucket
C2_Witness ==
    /\ AllDone
    /\ \E p, q \in Procs :
          /\ pending[p].op = "insert"
          /\ pending[q].op = "insert_batch"
          /\ Len(pending[q].vecs) >= 1
          /\ pending[p].vecs[1].id # pending[q].vecs[1].id
          /\ \E pl \in DOMAIN config.uniform_planes :
                {pending[p].vecs[1].id, pending[q].vecs[1].id}
                    \subseteq BucketOf(pending[p].vecs[1].vector, pl)

\* the search that search_with_metadata ran: same query, k and candidate order
SearchOfLast ==
    search(config, zero_norm, vector_table, bucket_table, last.query, last.k,
           last.calls[2].key)

HasMeta(id) == MetaKey(id) \in DOMAIN vector_table

\* the results of a search that have a metadata record
FoundWithMeta(found) == SelectSeq(found, LAMBDA x : HasMeta(x.id))

\* C7, as stated: search_with_metadata(query, k) returns exactly the results
\* of search(query, k) that have a metadata record "meta#" + id, each with
\* the record's metadata and without the vector values, and it does not
\* fail for any metadata mapping that insert_metadata accepted.
C7_SearchWithMetadata_AsStated ==
    (last.op = "search_with_metadata" /\ Len(last.calls) >= 2) =>
        /\ last.err = SearchOfLast.err
        /\ Returned =>
              LET want == FoundWithMeta(SearchOfLast.result)
              IN /\ Len(last.result) = Len(want)
                 /\ \A n \in 1..Len(want) :
                       /\ last.result[n].id = want[n].id
                       /\ last.result[n].dist = want[n].dist
                       /\ "vector" \notin DOMAIN last.result[n]
                       /\ "metadata" \in DOMAIN vector_table[MetaKey(want[n].id)] =>
                             last.result[n].metadata
                                 = vector_table[MetaKey(want[n].id)].metadata

\* the keys search_with_metadata read as metadata records
MetaKeysRead(call) == IF Len(call.calls) >= 3 THEN Range(call.calls[3].key) ELSE {}

\* C11, as stated: no metadata record written by insert_metadata overwrites
\* or is overwritten by a vector record, and no record stored by insert or
\* insert_batch is read back as a metadata record by search_with_metadata.
C11_NoCollision_AsStated ==
    [][/\ \A key \in DOMAIN vector_table \cap DOMAIN vector_table' :
             IsVectorItem(vector_table'[key]) = IsVectorItem(vector_table[key])
       /\ last'.op = "search_with_metadata" =>
             \A key \in MetaKeysRead(last') \cap DOMAIN vector_table :
                 ~IsVectorItem(vector_table[key])]_vars

\* C12: a successful insert(v) has made exactly 1 + n_planes storage writes:
\* first the put of the full vector record, then, plane by plane, one
\* set-union update adding v.id to the bucket of v's hash for that plane.
C12_InsertWrites ==
    (last.op = "insert" /\ Returned) =>
        LET v == last.vecs[1]
            planes == PlaneKeys(config)
            calls == last.calls
        IN /\ Len(calls) = 1 + Cardinality(DOMAIN config.uniform_planes)
           /\ \A n \in 1..Len(calls) : IsWrite(calls[n])
           /\ calls[1].call = "put"
           /\ calls[1].items = <<[id |-> v.id, values |-> v.vector]>>
           /\ \A i \in 1..Len(planes) :
                 /\ calls[1 + i].call = "update_column"
                 /\ calls[1 + i].key
                      = vector_plane_hash(v.vector, config.uniform_planes[planes[i]])
                 /\ calls[1 + i].ids = {v.id}

\* an insert whose two planes give the same bucket key: still two updates
C12_Witness ==
    /\ last.op = "insert"
    /\ Returned
    /\ Len(last.calls) = 3
    /\ last.calls[2].key = last.calls[3].key
    /\ last.vecs[1].id \in BucketIds(bucket_table, last.calls[2].key)

\* C13: in every state, also between the storage writes of concurrently
\* running insert and insert_batch calls and after a call that failed
\* part-way, every id in a bucket's id-set has a record in the vector table.
C13_BucketIdsHaveRecords ==
    \A key \in DOMAIN bucket_table :
        \A id \in bucket_table[key] : id \in DOMAIN vector_table

\* a caller has failed between its writes while another is between its own:
\* one id is in a bucket already, the other has its record and no bucket yet
C13_Witness ==
    \E p, q \in Procs :
        /\ pending[p].state = "failed"
        /\ pending[q].state = "running"
        /\ pending[q].todo # ProgramOf(pending[q]).calls
        /\ \E key \in DOMAIN bucket_table : bucket_table[key] # {}
        /\ \E id \in DOMAIN vector_table :
              \A key \in DOMAIN bucket_table : id \notin bucket_table[key]

\* C14: when a call that failed after some of its storage writes has been
\* repeated by the caller with the same arguments and ends without error,
\* the two tables are those a single successful call leaves from the state
\* the first attempt started in; and after a storage call has failed
\* nothing is written until the caller calls again.
C14_RetrySafe ==
    [][\A p \in Procs :
          /\ (/\ pending[p].state = "running"
              /\ pending'[p].state = "done"
              /\ pending'[p].err = NoError)
             => [vt |-> vector_table', bt |-> bucket_table']
                   = ApplyCalls(pending[p].start, ProgramOf(pending[p]).calls)
          /\ pending[p].state = "failed"
             => /\ pending[p].todo = <<>>
                /\ vector_table' = vector_table
                /\ bucket_table' = bucket_table]_vars

\* a repeated insert_batch has ended on tables that held buckets before it
C14_Witness ==
    \E p \in Procs :
        /\ pending[p].state = "done"
        /\ pending[p].retried
        /\ pending[p].err = NoError
        /\ pending[p].op = "insert_batch"
        /\ Len(pending[p].vecs) = 2
        /\ pending[p].start.bt # EmptyTable
        /\ pending[p].start.bt # bucket_table

\* a sequence taken in the order perm
Permute(seq, perm) == [i \in 1..Len(seq) |-> seq[perm[i]]]

\* C15: the bucket contents after insert_batch(vectors), for vectors with
\* distinct ids, are the same for every order of the vectors in the batch
\* and for every order in which the batch's bucket updates are made.
C15_BatchOrder ==
    [][last'.op = "insert_batch" =>
          LET vecs == last'.vecs
              calls == last'.calls
              updates == SubSeq(calls, 2, Len(calls))
          IN /\ \A perm \in Orderings(1..Len(vecs)) :
                   ApplyCalls(Tables, insert_batch(config, Permute(vecs, perm)).calls).bt
                       = bucket_table'
             /\ \A perm \in Orderings(1..Len(updates)) :
                   ApplyCalls(Tables, SubSeq(calls, 1, Min(1, Len(calls)))
                                      \o Permute(updates, perm)).bt
                       = bucket_table']_vars

\* a batch of two vectors that share one bucket and differ in another:
\* three updates, which can be made in six orders
C15_Witness ==
    /\ last.op = "insert_batch"
    /\ Returned
    /\ Len(last.vecs) = 2
    /\ Len(last.calls) = 4
    /\ \E n \in 1..Len(last.calls) : Cardinality(last.calls[n].ids) = 2
    /\ \E n \in 1..Len(last.calls) : last.calls[n].ids = {last.vecs[2].id}

\* insert(v1); ...; insert(vn): the tables the calls leave; the first call
\* that raises ends the sequence
RECURSIVE InsertEach(_, _)
InsertEach(tabs, vecs) ==
    IF vecs = <<>> THEN tabs
    ELSE LET r == insert(config, Head(vecs))
         IN IF r.err # NoError THEN ApplyCalls(tabs, r.calls)
            ELSE InsertEach(ApplyCalls(tabs, r.calls), Tail(vecs))

\* C16, as stated: from the same state, insert_batch([v1..vn]) with pairwise
\* distinct ids leaves the vector table and every bucket as
\* insert(v1); ...; insert(vn) leaves them.
C16_BatchAsSequence_AsStated ==
    [][last'.op = "insert_batch" =>
          [vt |-> vector_table', bt |-> bucket_table']
              = InsertEach(Tables, last'.vecs)]_vars

\* C16, amended: the same, for batches whose vectors all have n_features
\* components.
C16_BatchAsSequence ==
    [][(last'.op = "insert_batch" /\ ~Mismatched(last')) =>
          [vt |-> vector_table', bt |-> bucket_table']
              = InsertEach(Tables, last'.vecs)]_vars

\* a batch of two ids with the same values has been written
C16_Witness ==
    /\ last.op = "insert_batch"
    /\ Returned
    /\ Len(last.vecs) = 2
    /\ last.vecs[1].vector = last.vecs[2].vector
    /\ \A n \in 1..2 : StoredVector(last.vecs[n].id) = last.vecs[n].vector
    /\ \E key \in DOMAIN bucket_table : bucket_table[key] = Ids

\* C17: no operation takes an id out of a bucket or deletes a bucket; an
\* insert that succeeds leaves the record of its id with the new values
\* (the last writer wins, get_item returns them) and the id in the buckets
\* of the new values, while the id stays in the buckets it was in.
C17_BucketsGrow ==
    /\ [][\A key \in DOMAIN bucket_table :
             /\ key \in DOMAIN bucket_table'
             /\ bucket_table[key] \subseteq bucket_table'[key]]_vars
    /\ [][(last'.op = "insert" /\ last'.err = NoError) =>
             LET v == last'.vecs[1]
             IN /\ vector_table'[v.id] = [id |-> v.id, values |-> v.vector]
                /\ \A p \in DOMAIN config.uniform_planes :
                      v.id \in BucketIds(bucket_table',
                                  vector_plane_hash(v.vector, config.uniform_planes[p]))]_vars
    /\ []((last.op = "get_item" /\ Returned) =>
             last.result[1].vector = StoredVector(last.ids[1]))

\* get_item of an id that was inserted again with other values: it returns
\* the stored values, and the id is still in a bucket of the old ones
C17_Witness ==
    /\ last.op = "get_item"
    /\ Returned
    /\ PlanesGenerated
    /\ LET id == last.ids[1]
       IN /\ Len(StoredVector(id)) = config.n_features
          /\ \A p \in DOMAIN config.uniform_planes : id \in BucketOf(StoredVector(id), p)
          /\ \E key \in DOMAIN bucket_table :
                /\ id \in bucket_table[key]
                /\ \A p \in DOMAIN config.uniform_planes :
                      key # vector_plane_hash(StoredVector(id), config.uniform_planes[p])

\* C18: search computes one bucket key per configured plane for the query,
\* by hash_key as insert does, reads the ids of exactly those buckets, and
\* every result's id is in one of them at the time of the read; a key with
\* no stored bucket adds no candidate and is no error.
C18_CandidateRetrieval ==
    (last.op = "search" /\ PlanesGenerated /\ Len(last.query) = config.n_features) =>
        LET planes == PlaneKeys(config)
        IN /\ Len(last.calls) = 2
           /\ last.calls[1].call = "get_batch"
           /\ last.calls[1].key
                = [i \in 1..Len(planes) |-> hash_key(config, last.query, planes[i]).key]
           /\ Len(last.calls[1].key) = Cardinality(DOMAIN config.uniform_planes)
           /\ Range(last.calls[2].key) = QueryCandidates(last.query)
           /\ \A n \in 1..Len(last.result) :
                 last.result[n].id \in QueryCandidates(last.query)
           /\ ~Returned => /\ last.err = NumericError
                           /\ zero_norm = "error"
                           /\ QueryCandidates(last.query) # {}

\* a search that found a result in one of the query's buckets while another
\* of its bucket keys had no stored bucket
C18_Witness ==
    /\ last.op = "search"
    /\ Returned
    /\ Len(last.result) >= 1
    /\ \E n \in 1..Len(last.calls[1].key) :
          last.calls[1].key[n] \notin DOMAIN bucket_table

ReadOps == {"search", "search_with_metadata", "get_item", "get_bulk_items", "hash_key"}

\* C19: search, search_with_metadata, get_item, get_bulk_items and hash_key
\* make no storage write; the vector table, every bucket and the index
\* configuration are after them what they were before, whether they
\* succeed or fail.
C19_ReadsNoEffect ==
    [][last'.op \in ReadOps =>
          /\ \A n \in 1..Len(last'.calls) : ~IsWrite(last'.calls[n])
          /\ vector_table' = vector_table
          /\ bucket_table' = bucket_table
          /\ config' = config]_vars

\* a search_with_metadata that returned a joined result, and one that failed
\* on tables holding vectors, buckets and metadata
C19_Witness ==
    /\ last.op = "search_with_metadata"
    /\ Len(last.calls) = 3
    /\ \/ Returned /\ Len(last.result) >= 1
       \/ last.err = MetadataKeyError
    /\ bucket_table # EmptyTable
    /\ \E id \in Ids : HasMeta(id)

====
